---- MODULE Spec2Model ----
(***************************************************************************)
(* Entitlement store and resumable paginated search of app.py.             *)
(*                                                                         *)
(* The specifications share the state:                                     *)
(*   Spec          the search engine (do_search, more_cb, refresh_logs),   *)
(*                 one handler at a time, each handler one step;           *)
(*   SpecStore     the key/entitlement store (process_redeem_for_user,     *)
(*                 has_active_key, create_key_cmd) run by two handler      *)
(*                 threads that interleave at every call on the shared     *)
(*                 psycopg2 connection and cursor;                         *)
(*   SpecStoreSeq  the same store handlers, one handler at a time;         *)
(*   SpecSearch    do_search, more_cb and refresh_logs run by two handler  *)
(*                 threads that interleave between the statements that     *)
(*                 read or write logs, user_sessions and last_search;      *)
(*   SpecFetch     do_search and more_cb over a corpus that is never       *)
(*                 reloaded, with a user who keeps pressing More;          *)
(*   SpecStoreFail SpecStoreSeq with a store that may fail the UPDATE of   *)
(*                 a redeem;                                               *)
(*   SpecStoreLate SpecStore started after a key was redeemed and the      *)
(*                 entitlement expired.                                    *)
(***************************************************************************)
EXTENDS Integers, Sequences, FiniteSets, TLC

\* ------------------------------------------------------------------ bounds
\* Longest corpus (number of lines of logs.txt) that is explored.
MaxLines == 4
\* Last instant of the wall clock (datetime.now()) that is explored.
MaxTime == 3
\* Page size: app.py sets 200; the model scans corpora of MaxLines lines, so
\* the limit is scaled down to keep "more matches than one page" reachable.
SEARCH_LINE_LIMIT == 2
\* Cooldown window, in clock ticks (app.py: 5 minutes).
SEARCH_COOLDOWN_MINUTES == 2
\* Largest <count> given to /createkey.
MaxCount == 2
\* Number of handlers started in one run: store handlers that one thread
\* runs, and handlers of two threads that interleave.
MaxOps == 4
MaxRaceOps == 3

\* ------------------------------------------------------------------ values
ADMIN_ID == "admin"
Users == {ADMIN_ID, "u1"}
NULL == "NULL"
\* Python's None where a row or a timestamp is expected: rows are tuples and
\* an optional timestamp is the empty tuple or a one-tuple.
None == <<>>

\* Characters of lines and keywords, with str.lower().
LowerChar(ch) ==
    CASE ch = "A" -> "a"
      [] ch = "B" -> "b"
      [] OTHER -> ch

Lower(s) == [i \in DOMAIN s |-> LowerChar(s[i])]

\* str.strip(): leading and trailing blanks removed.
RECURSIVE LStrip(_)
LStrip(s) == IF s # <<>> /\ Head(s) = " " THEN LStrip(Tail(s)) ELSE s

RECURSIVE RStrip(_)
RStrip(s) ==
    IF s # <<>> /\ s[Len(s)] = " " THEN RStrip(SubSeq(s, 1, Len(s) - 1)) ELSE s

Strip(s) == RStrip(LStrip(s))

\* Python's "kw in line": substring containment.
Contains(kw, line) ==
    \E i \in 0..(Len(line) - Len(kw)) : SubSeq(line, i + 1, i + Len(kw)) = kw

\* Lines a log file may hold, keywords a user may type (raw message text),
\* and the keywords a "more:<kw>" button may carry.
Lines == {<<"b", "A">>, <<"b">>}
RawKeywords == {<<"a">>, <<" ", "A">>, <<" ">>}
Keywords == {<<"a">>}

RECURSIVE SeqsUpTo(_, _)
SeqsUpTo(S, n) ==
    IF n = 0 THEN {<<>>}
    ELSE LET shorter == SeqsUpTo(S, n - 1)
         IN shorter \cup {Append(s, x) : s \in shorter, x \in S}

\* load_logs(): any list of non-blank lines.
Corpora == SeqsUpTo(Lines, MaxLines)

Times == 0..MaxTime

VARIABLES
    now,            \* datetime.now()
    logs,           \* the loaded corpus
    user_sessions,  \* user_id -> keyword -> session
    last_search,    \* user_id -> time of the last accepted search
    conn,           \* the database connection, its cursor and its tables
    reply,          \* what the last finished handler answered
    delivered,      \* history: per (user, keyword), corpus positions sent so far
    fetches,        \* history: per (user, keyword), the last two page fetches
    pc,             \* per handler thread: where it is
    loc,            \* per handler thread: its local variables
    ops             \* history: number of store handlers started

vars == <<now, logs, user_sessions, last_search, conn, reply, delivered,
          fetches, pc, loc, ops>>

\* ------------------------------------------------ the connection (psycopg2)
\* conn is the one module-level connection with its one module-level cursor:
\*   keys, users    the tables as the connection's open transaction sees them
\*   dkeys, dusers  the tables as committed (durable)
\*   cur            the cursor's result set: NoResult, or the rows not yet fetched
\*   aborted        the open transaction failed and awaits a rollback
\*   pgrant, dgrant history: key codes whose entitlement upsert is pending in
\*                  the open transaction / has been committed
\* A table is a function from its primary key to the rest of the row.
NoResult == << <<-1, -1>> >>
EmptyTable == <<>>

\* State after the CREATE TABLE statements and the first commit.
InitConn ==
    [keys |-> EmptyTable, users |-> EmptyTable,
     dkeys |-> EmptyTable, dusers |-> EmptyTable,
     cur |-> NoResult, aborted |-> FALSE, pgrant |-> {}, dgrant |-> {}]

\* A statement executed in a failed transaction raises InFailedSqlTransaction.
ExecRaises(c) == c.aborted

\* cursor.execute() that raised: the cursor holds no result set.
ExecFailed(c) == [c EXCEPT !.cur = NoResult]

\* SELECT expires FROM users WHERE user_id=%s
SelectUserExpires(c, uid) ==
    [c EXCEPT !.cur = IF uid \in DOMAIN c.users THEN << <<c.users[uid]>> >>
                      ELSE <<>>]

\* Mutant of SelectKeyExpires: the test of redeemed_by is missing.
SelectKeyExpiresAny(c, key) ==
    [c EXCEPT !.cur = IF key \in DOMAIN c.keys THEN << <<c.keys[key].expires>> >>
                      ELSE <<>>]

\* SELECT expires FROM keys WHERE key=%s AND redeemed_by IS NULL
SelectKeyExpires(c, key) ==
    [c EXCEPT !.cur = IF key \in DOMAIN c.keys /\ c.keys[key].redeemed_by = NULL
                      THEN << <<c.keys[key].expires>> >>
                      ELSE <<>>]

\* cursor.fetchone(): raises ProgrammingError when the last statement of the
\* cursor returned no result set; else the next row, or None after the last.
FetchRaises(c) == c.cur = NoResult

FetchRow(c) == IF c.cur = <<>> THEN None ELSE Head(c.cur)

AfterFetch(c) == [c EXCEPT !.cur = IF @ = <<>> THEN <<>> ELSE Tail(@)]

\* Mutant of UpsertUser: an existing later expiry is kept (merge).
UpsertUserLatest(c, uid, expires) ==
    [c EXCEPT !.users = (uid :> IF uid \in DOMAIN @ /\ @[uid] > expires
                                THEN @[uid] ELSE expires) @@ @,
              !.cur = NoResult]

\* INSERT INTO users ... ON CONFLICT (user_id) DO UPDATE SET expires=%s
UpsertUser(c, uid, expires) ==
    [c EXCEPT !.users = (uid :> expires) @@ @, !.cur = NoResult]

\* UPDATE keys SET redeemed_by=%s WHERE key=%s
UpdateKeyRedeemed(c, uid, key) ==
    [c EXCEPT !.keys = IF key \in DOMAIN @
                       THEN [@ EXCEPT ![key].redeemed_by = uid]
                       ELSE @,
              !.cur = NoResult]

\* DELETE FROM users WHERE user_id=%s
DeleteUser(c, uid) ==
    [c EXCEPT !.users = [u \in (DOMAIN @) \ {uid} |-> @[u]], !.cur = NoResult]

\* INSERT INTO keys (key, expires, redeemed_by) VALUES (%s,%s,NULL): raises
\* IntegrityError on a duplicate primary key, which fails the transaction.
InsertKeyRaises(c, key) == key \in DOMAIN c.keys

InsertKey(c, key, expires) ==
    IF InsertKeyRaises(c, key)
    THEN [c EXCEPT !.aborted = TRUE, !.cur = NoResult]
    ELSE [c EXCEPT !.keys = (key :> [expires |-> expires, redeemed_by |-> NULL]) @@ @,
                   !.cur = NoResult]

\* conn.rollback(): everything pending in the open transaction is dropped.
Rollback(c) ==
    [c EXCEPT !.keys = c.dkeys, !.users = c.dusers, !.aborted = FALSE,
              !.pgrant = {}]

\* conn.commit(): everything pending becomes durable, whichever handler wrote
\* it; the commit of a failed transaction is a rollback.
Commit(c) ==
    IF c.aborted THEN Rollback(c)
    ELSE [c EXCEPT !.dkeys = c.keys, !.dusers = c.users,
                   !.dgrant = @ \cup c.pgrant, !.pgrant = {}]

\* History only: the upsert just executed grants from key code `key`.
NoteGrant(c, key) == [c EXCEPT !.pgrant = @ \cup {key}]

\* Mutant of StillValid: the instant of expiry itself counts as expired.
StillValidStrict(t, exp) == t < exp

\* datetime.now() <= exp
StillValid(t, exp) == t <= exp

\* get_user_expiry and has_active_key run without interruption (the
\* transaction is not failed): the verdict and the connection afterwards.
get_user_expiry(c, uid) ==
    LET c1 == SelectUserExpires(c, uid)
        row == FetchRow(c1)
    IN [conn |-> AfterFetch(c1), ret |-> IF row # None THEN <<row[1]>> ELSE None]

has_active_key(c, uid, t) ==
    LET g == get_user_expiry(c, uid)
    IN IF g.ret = None THEN [conn |-> g.conn, ret |-> FALSE]
       ELSE IF StillValid(t, g.ret[1]) THEN [conn |-> g.conn, ret |-> TRUE]
       ELSE [conn |-> Commit(DeleteUser(g.conn, uid)), ret |-> FALSE]

\* ---------------------------------------------------------------- cooldown
\* Mutant of is_on_cooldown: the window still holds at its last instant.
is_on_cooldown_inclusive(ls, uid, t) ==
    IF uid = ADMIN_ID THEN [on |-> FALSE, rem |-> 0]
    ELSE IF uid \notin DOMAIN ls THEN [on |-> FALSE, rem |-> 0]
    ELSE LET expire_time == ls[uid] + SEARCH_COOLDOWN_MINUTES
         IN IF t <= expire_time THEN [on |-> TRUE, rem |-> expire_time - t]
            ELSE [on |-> FALSE, rem |-> 0]

\* Mutant of is_on_cooldown: no admin bypass.
is_on_cooldown_everyone(ls, uid, t) ==
    IF uid \notin DOMAIN ls THEN [on |-> FALSE, rem |-> 0]
    ELSE LET expire_time == ls[uid] + SEARCH_COOLDOWN_MINUTES
         IN IF t < expire_time THEN [on |-> TRUE, rem |-> expire_time - t]
            ELSE [on |-> FALSE, rem |-> 0]

is_on_cooldown(ls, uid, t) ==
    IF uid = ADMIN_ID THEN [on |-> FALSE, rem |-> 0]
    ELSE IF uid \notin DOMAIN ls THEN [on |-> FALSE, rem |-> 0]
    ELSE LET expire_time == ls[uid] + SEARCH_COOLDOWN_MINUTES
         IN IF t < expire_time THEN [on |-> TRUE, rem |-> expire_time - t]
            ELSE [on |-> FALSE, rem |-> 0]

set_search_timestamp(ls, uid, t) == (uid :> t) @@ ls

\* ---------------------------------------------------------------- sessions
NewSession == [last_scanned_pos |-> -1, delivered |-> 0, finished |-> FALSE]

HasSession(us, uid, kw) == uid \in DOMAIN us /\ kw \in DOMAIN us[uid]

\* Mutant of start_or_resume_session: an existing session is started afresh.
restart_session(us, uid, kw) ==
    LET us1 == IF uid \in DOMAIN us THEN us ELSE (uid :> <<>>) @@ us
    IN [us1 EXCEPT ![uid] = (kw :> NewSession) @@ @]

start_or_resume_session(us, uid, kw) ==
    LET us1 == IF uid \in DOMAIN us THEN us ELSE (uid :> <<>>) @@ us
    IN IF kw \in DOMAIN us1[uid] THEN us1
       ELSE [us1 EXCEPT ![uid] = (kw :> NewSession) @@ @]

\* Mutant of ScanLoop: a matching line is appended whether or not the page
\* has room.
RECURSIVE ScanLoopNoRoomTest(_, _, _, _)
ScanLoopNoRoomTest(lg, kw, idx, st) ==
    IF idx >= Len(lg) THEN st
    ELSE LET line == lg[idx + 1]
             st1 == [st EXCEPT !.scanned_pos = idx]
         IN IF Contains(kw, Lower(line))
            THEN LET st2 == [st1 EXCEPT !.matches = @ + 1,
                                        !.results = Append(@, line),
                                        !.idxs = Append(@, idx)]
                 IN IF st2.matches > SEARCH_LINE_LIMIT
                    THEN [st2 EXCEPT !.more_exists = TRUE]
                    ELSE ScanLoopNoRoomTest(lg, kw, idx + 1, st2)
            ELSE ScanLoopNoRoomTest(lg, kw, idx + 1, st1)

\* The for loop of scan_next_page_for_session from index idx (0-based) on.
\* st holds the loop's variables; idxs is history: the positions of results.
RECURSIVE ScanLoop(_, _, _, _)
ScanLoop(lg, kw, idx, st) ==
    IF idx >= Len(lg) THEN st
    ELSE LET line == lg[idx + 1]
             st1 == [st EXCEPT !.scanned_pos = idx]
         IN IF Contains(kw, Lower(line))
            THEN LET room == Len(st1.results) < SEARCH_LINE_LIMIT
                     st2 == [st1 EXCEPT
                               !.matches = @ + 1,
                               !.results = IF room THEN Append(@, line) ELSE @,
                               !.idxs = IF room THEN Append(@, idx) ELSE @]
                 IN IF st2.matches > SEARCH_LINE_LIMIT
                    THEN [st2 EXCEPT !.more_exists = TRUE]
                    ELSE ScanLoop(lg, kw, idx + 1, st2)
            ELSE ScanLoop(lg, kw, idx + 1, st1)

\* Mutant of StartIndex: every scan starts at the top of the corpus.
StartIndexFromTop(last_pos) == 0

\* Mutant of StartIndex: the scan resumes at the last scanned line itself.
StartIndexRescan(last_pos) == IF last_pos < 0 THEN 0 ELSE last_pos

\* First index the scan examines.
StartIndex(last_pos) == last_pos + 1

\* Mutant of scan_next_page_for_session: when more matches exist the cursor
\* is left on the last line of the page, not on the excess match.
scan_next_page_keeping_excess(us, lg, uid, kw) ==
    LET us1 == start_or_resume_session(us, uid, kw)
        sess == us1[uid][kw]
        last_pos == sess.last_scanned_pos
        n == Len(lg)
        st == ScanLoop(lg, kw, StartIndex(last_pos),
                       [results |-> <<>>, idxs |-> <<>>, more_exists |-> FALSE,
                        scanned_pos |-> last_pos, matches |-> 0])
        pos == IF st.more_exists THEN st.idxs[Len(st.idxs)] ELSE st.scanned_pos
        sess1 == [sess EXCEPT !.last_scanned_pos = pos,
                              !.finished = IF pos >= n - 1 THEN TRUE ELSE @]
    IN [us |-> [us1 EXCEPT ![uid][kw] = sess1],
        results |-> st.results, more_exists |-> st.more_exists, idxs |-> st.idxs]

\* Mutant of scan_next_page_for_session: the cursor is not written back to
\* the session.
scan_next_page_not_saving(us, lg, uid, kw) ==
    LET us1 == start_or_resume_session(us, uid, kw)
        sess == us1[uid][kw]
        last_pos == sess.last_scanned_pos
        n == Len(lg)
        st == ScanLoop(lg, kw, StartIndex(last_pos),
                       [results |-> <<>>, idxs |-> <<>>, more_exists |-> FALSE,
                        scanned_pos |-> last_pos, matches |-> 0])
        sess1 == [sess EXCEPT !.finished = IF last_pos >= n - 1 THEN TRUE ELSE @]
    IN [us |-> [us1 EXCEPT ![uid][kw] = sess1],
        results |-> st.results, more_exists |-> st.more_exists, idxs |-> st.idxs]

\* Mutant of scan_next_page_for_session: finished is set one position late.
scan_next_page_finishing_late(us, lg, uid, kw) ==
    LET us1 == start_or_resume_session(us, uid, kw)
        sess == us1[uid][kw]
        last_pos == sess.last_scanned_pos
        n == Len(lg)
        st == ScanLoop(lg, kw, StartIndex(last_pos),
                       [results |-> <<>>, idxs |-> <<>>, more_exists |-> FALSE,
                        scanned_pos |-> last_pos, matches |-> 0])
        sess1 == [sess EXCEPT !.last_scanned_pos = st.scanned_pos,
                              !.finished = IF st.scanned_pos >= n THEN TRUE ELSE @]
    IN [us |-> [us1 EXCEPT ![uid][kw] = sess1],
        results |-> st.results, more_exists |-> st.more_exists, idxs |-> st.idxs]

scan_next_page_for_session(us, lg, uid, kw) ==
    LET us1 == start_or_resume_session(us, uid, kw)
        sess == us1[uid][kw]
        last_pos == sess.last_scanned_pos
        n == Len(lg)
        st == ScanLoop(lg, kw, StartIndex(last_pos),
                       [results |-> <<>>, idxs |-> <<>>, more_exists |-> FALSE,
                        scanned_pos |-> last_pos, matches |-> 0])
        sess1 == [sess EXCEPT !.last_scanned_pos = st.scanned_pos,
                              !.finished = IF st.scanned_pos >= n - 1 THEN TRUE ELSE @]
    IN [us |-> [us1 EXCEPT ![uid][kw] = sess1],
        results |-> st.results, more_exists |-> st.more_exists, idxs |-> st.idxs]

\* ------------------------------------------------------------ search engine
Procs == {1, 2}
Idle == [p \in Procs |-> "idle"]
\* A handler thread's local variables, kept after it returns as its answer:
\*   op, uid, key, days   the handler and its arguments
\*   expires              row[0] of the fetched row
\*   left, keys           create_key_cmd: iterations left, codes appended
\*   out                  the answer given
\*   fresh, old, had      history: when the handler began, the key was
\*                        unredeemed / the user's expiry / the stored codes
\*   race                 history: another redemption of the same unredeemed
\*                        key ran at the same time
\*   kw, n, idx, scanned_pos, matches, results, more_exists
\*                        the variables of scan_next_page_for_session
\*   orphan               sess is a dict that user_sessions.clear() dropped
\*   idxs, snap, late     history: the positions of results; logs when the
\*                        scan read its cursor; the handler began between a
\*                        reload's two statements
NoLoc ==
    [op |-> "none", uid |-> "nobody", key |-> "nokey", days |-> 0,
     expires |-> None, left |-> 0, keys |-> <<>>, out |-> "",
     fresh |-> FALSE, old |-> None, had |-> {}, race |-> FALSE,
     kw |-> <<>>, n |-> 0, idx |-> 0, scanned_pos |-> -1, matches |-> 0,
     results |-> <<>>, more_exists |-> FALSE, orphan |-> FALSE,
     idxs |-> <<>>, snap |-> <<>>, late |-> FALSE]
NoLocals == [p \in Procs |-> NoLoc]

SessionKeys == Users \X Keywords

\* History: a scan of session (uid, kw) returned the corpus positions idxs.
NoteFetch(f, uid, kw, r) ==
    [f EXCEPT ![<<uid, kw>>] =
        IF @ = <<>> THEN <<[idxs |-> r.idxs, more |-> r.more_exists]>>
        ELSE <<@[Len(@)], [idxs |-> r.idxs, more |-> r.more_exists]>>]

NoteDelivered(d, uid, kw, r) == [d EXCEPT ![<<uid, kw>>] = @ \o r.idxs]

Reply(op, uid, kw, outcome, results, more) ==
    [op |-> op, uid |-> uid, kw |-> kw, outcome |-> outcome,
     results |-> results, more |-> more]

\* do_search(message): the whole handler.
DoSearch(uid, text) ==
    LET h == has_active_key(conn, uid, now)
        cd == is_on_cooldown(last_search, uid, now)
        kw == Lower(Strip(text))
        us1 == start_or_resume_session(user_sessions, uid, kw)
        r == scan_next_page_for_session(us1, logs, uid, kw)
    IN /\ conn' = h.conn
       /\ IF ~h.ret
          THEN /\ reply' = Reply("search", uid, text, "NoEntitlement", <<>>, FALSE)
               /\ UNCHANGED <<user_sessions, last_search, delivered, fetches>>
          ELSE IF cd.on
          THEN /\ reply' = Reply("search", uid, text, "OnCooldown", <<>>, FALSE)
               /\ UNCHANGED <<user_sessions, last_search, delivered, fetches>>
          ELSE IF kw = <<>>
          THEN /\ reply' = Reply("search", uid, text, "EmptyKeyword", <<>>, FALSE)
               /\ UNCHANGED <<user_sessions, last_search, delivered, fetches>>
          ELSE /\ last_search' = set_search_timestamp(last_search, uid, now)
               /\ user_sessions' = r.us
               /\ delivered' = NoteDelivered(delivered, uid, kw, r)
               /\ fetches' = NoteFetch(fetches, uid, kw, r)
               /\ reply' = Reply("search", uid, kw,
                                 IF r.results = <<>> THEN "NoResults" ELSE "Page",
                                 r.results, r.more_exists)
       /\ UNCHANGED <<now, logs, pc, loc, ops>>

\* Mutant of MoreCb: an attempt refused for cooldown restarts the window.
MoreCbChargesAttempt(uid, kw) ==
    LET h == has_active_key(conn, uid, now)
        cd == is_on_cooldown(last_search, uid, now)
        r == scan_next_page_for_session(user_sessions, logs, uid, kw)
    IN /\ conn' = h.conn
       /\ IF ~h.ret
          THEN /\ reply' = Reply("more", uid, kw, "NoEntitlement", <<>>, FALSE)
               /\ UNCHANGED <<user_sessions, last_search, delivered, fetches>>
          ELSE IF cd.on
          THEN /\ reply' = Reply("more", uid, kw, "OnCooldown", <<>>, FALSE)
               /\ last_search' = set_search_timestamp(last_search, uid, now)
               /\ UNCHANGED <<user_sessions, delivered, fetches>>
          ELSE /\ user_sessions' = r.us
               /\ delivered' = NoteDelivered(delivered, uid, kw, r)
               /\ fetches' = NoteFetch(fetches, uid, kw, r)
               /\ IF r.results = <<>>
                  THEN /\ reply' = Reply("more", uid, kw, "NoMore", <<>>, r.more_exists)
                       /\ UNCHANGED last_search
                  ELSE /\ last_search' = set_search_timestamp(last_search, uid, now)
                       /\ reply' = Reply("more", uid, kw, "Page", r.results,
                                         r.more_exists)
       /\ UNCHANGED <<now, logs, pc, loc, ops>>

\* more_cb(call): the whole handler; kw is the text after "more:".
MoreCb(uid, kw) ==
    LET h == has_active_key(conn, uid, now)
        cd == is_on_cooldown(last_search, uid, now)
        r == scan_next_page_for_session(user_sessions, logs, uid, kw)
    IN /\ conn' = h.conn
       /\ IF ~h.ret
          THEN /\ reply' = Reply("more", uid, kw, "NoEntitlement", <<>>, FALSE)
               /\ UNCHANGED <<user_sessions, last_search, delivered, fetches>>
          ELSE IF cd.on
          THEN /\ reply' = Reply("more", uid, kw, "OnCooldown", <<>>, FALSE)
               /\ UNCHANGED <<user_sessions, last_search, delivered, fetches>>
          ELSE /\ user_sessions' = r.us
               /\ delivered' = NoteDelivered(delivered, uid, kw, r)
               /\ fetches' = NoteFetch(fetches, uid, kw, r)
               /\ IF r.results = <<>>
                  THEN /\ reply' = Reply("more", uid, kw, "NoMore", <<>>, r.more_exists)
                       /\ UNCHANGED last_search
                  ELSE /\ last_search' = set_search_timestamp(last_search, uid, now)
                       /\ reply' = Reply("more", uid, kw, "Page", r.results,
                                         r.more_exists)
       /\ UNCHANGED <<now, logs, pc, loc, ops>>

NoHistory == [sk \in SessionKeys |-> <<>>]

\* refresh_logs_cmd / refresh_logs_cb: the whole handler; load_logs() may
\* return any corpus.
RefreshLogs(uid) ==
    /\ IF uid # ADMIN_ID
       THEN /\ reply' = Reply("refresh", uid, <<>>, "NotAuthorized", <<>>, FALSE)
            /\ UNCHANGED <<logs, user_sessions, delivered, fetches>>
       ELSE /\ logs' \in Corpora
            /\ user_sessions' = <<>>
            /\ delivered' = NoHistory
            /\ fetches' = NoHistory
            /\ reply' = Reply("refresh", uid, <<>>, "Reloaded", <<>>, FALSE)
    /\ UNCHANGED <<now, last_search, conn, pc, loc, ops>>

\* The wall clock advances.
Tick ==
    /\ now < MaxTime
    /\ now' = now + 1
    /\ UNCHANGED <<logs, user_sessions, last_search, conn, reply, delivered,
                   fetches, pc, loc, ops>>

\* ---- One corpus, never reloaded, and a user who keeps pressing More ----
\* The handlers run one at a time as in Spec, but refresh_logs is never
\* called, so logs stays the corpus loaded at start-up; a More of the admin
\* (who has no cooldown and whose entitlement outlives the run) that would
\* change the state is eventually handled.  The fetches are taken within one
\* minute of the clock.
NextFetch ==
    \/ \E uid \in Users, text \in RawKeywords : DoSearch(uid, text)
    \/ \E uid \in Users, kw \in Keywords : MoreCb(uid, kw)

\* Where every session stands: whether it exists, its cursor, its flag.
Cursors ==
    [sk \in SessionKeys |->
        IF HasSession(user_sessions, sk[1], sk[2])
        THEN <<TRUE, user_sessions[sk[1]][sk[2]].last_scanned_pos,
               user_sessions[sk[1]][sk[2]].finished>>
        ELSE <<FALSE, -1, FALSE>>]

KeepsFetching == \A kw \in Keywords : WF_Cursors(MoreCb(ADMIN_ID, kw))

\* Entitlements the search engine starts with (keys redeemed earlier): the
\* admin's outlives the run, u1's expires before the run ends.
SearchEntitlements == (ADMIN_ID :> MaxTime + 1) @@ ("u1" :> MaxTime - 1)

NoReply == Reply("none", "nobody", <<>>, "none", <<>>, FALSE)

Init ==
    /\ now = 0
    /\ logs \in Corpora
    /\ user_sessions = <<>>
    /\ last_search = <<>>
    /\ conn = [InitConn EXCEPT !.users = SearchEntitlements,
                               !.dusers = SearchEntitlements]
    /\ reply = NoReply
    /\ delivered = NoHistory
    /\ fetches = NoHistory
    /\ pc = Idle
    /\ loc = NoLocals
    /\ ops = 0

Next ==
    \/ \E uid \in Users, text \in RawKeywords : DoSearch(uid, text)
    \/ \E uid \in Users, kw \in Keywords : MoreCb(uid, kw)
    \/ \E uid \in Users : RefreshLogs(uid)
    \/ Tick

Spec == Init /\ [][Next]_vars

SpecFetch == Init /\ [][NextFetch]_vars /\ KeepsFetching

\* ------------------------------------------------------------ store threads
\* telebot runs handlers on worker threads; every thread uses the one conn
\* and the one cursor.  Each action below is one call on the connection or
\* cursor together with the Python around it, for handler thread p.
Codes == {"k1", "k2"}
Days == {1}
Counts == 0..MaxCount

Unredeemed(keys, key) == key \in DOMAIN keys /\ keys[key].redeemed_by = NULL

Expiry(users, uid) == IF uid \in DOMAIN users THEN <<users[uid]>> ELSE None

Goto(p, label, l) ==
    /\ pc' = [pc EXCEPT ![p] = label]
    /\ loc' = [loc EXCEPT ![p] = l]

\* The handler of thread p returns: its answer becomes the last reply (with
\* the history of its locals), its locals are gone.
Answer(p, l, out) ==
    [op |-> l.op, uid |-> l.uid, key |-> l.key, out |-> out,
     old |-> l.old, race |-> l.race, proc |-> p]

Return(p, l, out) ==
    /\ pc' = [pc EXCEPT ![p] = "idle"]
    /\ loc' = [loc EXCEPT ![p] = NoLoc]
    /\ reply' = Answer(p, l, out)

Continue(p, label, l) ==
    /\ Goto(p, label, l)
    /\ UNCHANGED reply

StoreFrame ==
    UNCHANGED <<now, logs, user_sessions, last_search, delivered, fetches>>

\* A handler starts on an idle thread.
Start(p) ==
    /\ pc[p] = "idle"
    /\ ops < MaxOps
    /\ ops' = ops + 1

Running(p, label) ==
    /\ pc[p] = label
    /\ UNCHANGED ops

\* redeem_cmd up to and including the SELECT of process_redeem_for_user.
RedeemSelect(p) ==
    /\ Start(p)
    /\ \E uid \in Users, key \in Codes :
         LET fresh == Unredeemed(conn.keys, key)
             rivals == {q \in Procs \ {p} :
                           /\ pc[q] # "idle"
                           /\ loc[q].op = "redeem"
                           /\ loc[q].key = key
                           /\ loc[q].fresh}
             l == [NoLoc EXCEPT !.op = "redeem", !.uid = uid, !.key = key,
                                !.fresh = fresh,
                                !.old = Expiry(conn.users, uid),
                                !.race = fresh /\ rivals # {}]
         IN IF ExecRaises(conn)
            THEN /\ conn' = ExecFailed(conn)
                 /\ Return(p, l, "error")
            ELSE /\ conn' = SelectKeyExpires(conn, key)
                 /\ pc' = [pc EXCEPT ![p] = "r_fetch"]
                 /\ UNCHANGED reply
                 /\ loc' = [q \in Procs |->
                              IF q = p THEN l
                              ELSE IF l.race /\ q \in rivals
                                   THEN [loc[q] EXCEPT !.race = TRUE]
                                   ELSE loc[q]]
    /\ StoreFrame

\* row = cursor.fetchone(); if not row: return False, ...; expires = row[0]
RedeemFetch(p) ==
    /\ Running(p, "r_fetch")
    /\ IF FetchRaises(conn)
       THEN /\ UNCHANGED conn
            /\ Return(p, loc[p], "error")
       ELSE /\ conn' = AfterFetch(conn)
            /\ IF FetchRow(conn) = None
               THEN Return(p, loc[p], "invalid")
               ELSE Continue(p, "r_upsert",
                         [loc[p] EXCEPT !.expires = <<FetchRow(conn)[1]>>])
    /\ StoreFrame

\* INSERT INTO users ... ON CONFLICT ... DO UPDATE
RedeemUpsert(p) ==
    /\ Running(p, "r_upsert")
    /\ IF ExecRaises(conn)
       THEN /\ conn' = ExecFailed(conn)
            /\ Return(p, loc[p], "error")
       ELSE /\ conn' = NoteGrant(UpsertUser(conn, loc[p].uid, loc[p].expires[1]),
                                 loc[p].key)
            /\ Continue(p, "r_update", loc[p])
    /\ StoreFrame

\* UPDATE keys SET redeemed_by=%s WHERE key=%s
RedeemUpdate(p) ==
    /\ Running(p, "r_update")
    /\ IF ExecRaises(conn)
       THEN /\ conn' = ExecFailed(conn)
            /\ Return(p, loc[p], "error")
       ELSE /\ conn' = UpdateKeyRedeemed(conn, loc[p].uid, loc[p].key)
            /\ Continue(p, "r_commit", loc[p])
    /\ StoreFrame

\* conn.commit(); return True, ...
RedeemCommit(p) ==
    /\ Running(p, "r_commit")
    /\ conn' = Commit(conn)
    /\ Return(p, loc[p], "ok")
    /\ StoreFrame

\* has_active_key: the SELECT of get_user_expiry.
HasActiveSelect(p) ==
    /\ Start(p)
    /\ \E uid \in Users :
         LET l == [NoLoc EXCEPT !.op = "has_active", !.uid = uid,
                                !.old = Expiry(conn.users, uid)]
         IN IF ExecRaises(conn)
            THEN /\ conn' = ExecFailed(conn)
                 /\ Return(p, l, "error")
            ELSE /\ conn' = SelectUserExpires(conn, uid)
                 /\ Continue(p, "h_fetch", l)
    /\ StoreFrame

\* row = cursor.fetchone(); exp = row[0] if row else None; the two tests.
HasActiveFetch(p) ==
    /\ Running(p, "h_fetch")
    /\ IF FetchRaises(conn)
       THEN /\ UNCHANGED conn
            /\ Return(p, loc[p], "error")
       ELSE /\ conn' = AfterFetch(conn)
            /\ IF FetchRow(conn) = None
               THEN Return(p, loc[p], "false")
               ELSE IF StillValid(now, FetchRow(conn)[1])
               THEN Return(p, loc[p], "true")
               ELSE Continue(p, "h_delete",
                         [loc[p] EXCEPT !.expires = <<FetchRow(conn)[1]>>])
    /\ StoreFrame

\* DELETE FROM users WHERE user_id=%s
HasActiveDelete(p) ==
    /\ Running(p, "h_delete")
    /\ IF ExecRaises(conn)
       THEN /\ conn' = ExecFailed(conn)
            /\ Return(p, loc[p], "error")
       ELSE /\ conn' = DeleteUser(conn, loc[p].uid)
            /\ Continue(p, "h_commit", loc[p])
    /\ StoreFrame

\* conn.commit(); return False
HasActiveCommit(p) ==
    /\ Running(p, "h_commit")
    /\ conn' = Commit(conn)
    /\ Return(p, loc[p], "false")
    /\ StoreFrame

\* create_key_cmd up to the loop: the admin test, the parse, the sign test.
CreateKeysStart(p) ==
    /\ Start(p)
    /\ \E uid \in Users, days \in Days, count \in Counts :
         LET l == [NoLoc EXCEPT !.op = "createkeys", !.uid = uid,
                                !.days = days, !.left = count,
                                !.had = DOMAIN conn.dkeys]
         IN IF uid # ADMIN_ID THEN Return(p, l, "unauthorized")
            ELSE IF count <= 0 \/ days <= 0 THEN Return(p, l, "rejected")
            ELSE Continue(p, "c_insert", l)
    /\ UNCHANGED conn
    /\ StoreFrame

\* One iteration of the loop: a random code, its INSERT, keys.append(key).
CreateKeysInsert(p) ==
    /\ Running(p, "c_insert")
    /\ \E key \in Codes :
         LET l == [loc[p] EXCEPT !.left = @ - 1]
         IN IF ExecRaises(conn)
            THEN /\ conn' = ExecFailed(conn)
                 /\ Return(p, l, "usage")
            ELSE /\ conn' = InsertKey(conn, key, now + loc[p].days)
                 /\ IF InsertKeyRaises(conn, key)
                    THEN Continue(p, "c_rollback", l)
                    ELSE Continue(p, IF l.left = 0 THEN "c_commit" ELSE "c_insert",
                              [l EXCEPT !.keys = Append(@, key)])
    /\ StoreFrame

\* except psycopg2.IntegrityError: conn.rollback()
CreateKeysRollback(p) ==
    /\ Running(p, "c_rollback")
    /\ conn' = Rollback(conn)
    /\ Continue(p, IF loc[p].left = 0 THEN "c_commit" ELSE "c_insert", loc[p])
    /\ StoreFrame

\* conn.commit() after the loop, and the reply with the codes.
CreateKeysCommit(p) ==
    /\ Running(p, "c_commit")
    /\ conn' = Commit(conn)
    /\ Return(p, loc[p], IF loc[p].keys # <<>> THEN "generated" ELSE "none")
    /\ StoreFrame

NoAnswer == Answer(0, NoLoc, "")

StoreStep(p) ==
    \/ RedeemSelect(p)
    \/ RedeemFetch(p)
    \/ RedeemUpsert(p)
    \/ RedeemUpdate(p)
    \/ RedeemCommit(p)
    \/ HasActiveSelect(p)
    \/ HasActiveFetch(p)
    \/ HasActiveDelete(p)
    \/ HasActiveCommit(p)
    \/ CreateKeysStart(p)
    \/ CreateKeysInsert(p)
    \/ CreateKeysRollback(p)
    \/ CreateKeysCommit(p)

InitStore ==
    /\ now = 0
    /\ logs = <<>>
    /\ user_sessions = <<>>
    /\ last_search = <<>>
    /\ conn = InitConn
    /\ reply = NoAnswer
    /\ delivered = NoHistory
    /\ fetches = NoHistory
    /\ pc = Idle
    /\ loc = NoLocals
    /\ ops = 0

\* Handler threads interleave at every call on the connection.
NextStore ==
    \/ \E p \in Procs : StoreStep(p) /\ ops' <= MaxRaceOps
    \/ Tick

SpecStore == InitStore /\ [][NextStore]_vars

\* One handler at a time: a single thread runs the handlers, and the clock
\* stands still while a handler runs.
Main == CHOOSE p \in Procs : \A q \in Procs : p <= q

NextStoreSeq ==
    \/ StoreStep(Main)
    \/ (pc[Main] = "idle" /\ Tick)

SpecStoreSeq == InitStore /\ [][NextStoreSeq]_vars

\* ---- The store threads, started late ----
\* The two handler threads of SpecStore, started in a state that the
\* handlers reach one at a time: /createkey made k1 at 0, u1 redeemed it,
\* the clock went on to MaxTime - 1, where u1's entitlement is expired, and
\* /createkey made k2.
LateKeys ==
    ("k1" :> [expires |-> 1, redeemed_by |-> "u1"])
    @@ ("k2" :> [expires |-> MaxTime, redeemed_by |-> NULL])

LateConn ==
    [InitConn EXCEPT !.keys = LateKeys, !.dkeys = LateKeys,
                     !.users = ("u1" :> 1), !.dusers = ("u1" :> 1),
                     !.dgrant = {"k1"}]

InitStoreLate ==
    /\ now = MaxTime - 1
    /\ logs = <<>>
    /\ user_sessions = <<>>
    /\ last_search = <<>>
    /\ conn = LateConn
    /\ reply = Answer(Main, [NoLoc EXCEPT !.op = "createkeys", !.uid = ADMIN_ID],
                      "generated")
    /\ delivered = NoHistory
    /\ fetches = NoHistory
    /\ pc = Idle
    /\ loc = NoLocals
    /\ ops = 0

SpecStoreLate == InitStoreLate /\ [][NextStore]_vars

\* ---- The store fails while a redeem is under way ----
\* cursor.execute of the UPDATE raises a server error (the statement is
\* cancelled, a lock is not granted, ...): the open transaction, with the
\* upsert in it, is in the failed state, the exception leaves
\* process_redeem_for_user and is caught by redeem_cmd, which replies its
\* usage line and returns.
RedeemUpdateFails(p) ==
    /\ Running(p, "r_update")
    /\ ~ExecRaises(conn)
    /\ conn' = [conn EXCEPT !.aborted = TRUE, !.cur = NoResult]
    /\ Return(p, loc[p], "error")
    /\ StoreFrame

NextStoreFail ==
    \/ StoreStep(Main)
    \/ RedeemUpdateFails(Main)
    \/ (pc[Main] = "idle" /\ Tick)

SpecStoreFail == InitStore /\ [][NextStoreFail]_vars

\* ----------------------------------------------------------- search threads
\* do_search, more_cb and the reload handlers on the worker threads.  No
\* lock guards logs, user_sessions or last_search; a step below is a run of
\* statements between two points where the other thread may run.
\* A handler starts on an idle thread.
Begin(p) ==
    /\ pc[p] = "idle"
    /\ ops < MaxRaceOps
    /\ ops' = ops + 1

\* Corpora that load_logs() yields in the runs with two threads: one line,
\* or the longest.
RaceCorpora == {c \in Corpora : Len(c) \in {1, MaxLines}}

Reloading == {q \in Procs : pc[q] = "rl_clear"}

SessionsOf(us) == {sk \in SessionKeys : HasSession(us, sk[1], sk[2])}

Leave(p, answer) ==
    /\ pc' = [pc EXCEPT ![p] = "idle"]
    /\ loc' = [loc EXCEPT ![p] = NoLoc]
    /\ reply' = answer

\* do_search up to the cooldown check and the keyword test.
SearchGate(p) ==
    /\ Begin(p)
    /\ \E uid \in Users, text \in RawKeywords :
         LET h == has_active_key(conn, uid, now)
             cd == is_on_cooldown(last_search, uid, now)
             kw == Lower(Strip(text))
         IN /\ conn' = h.conn
            /\ IF ~h.ret
               THEN Leave(p, Reply("search", uid, text, "NoEntitlement", <<>>, FALSE))
               ELSE IF cd.on
               THEN Leave(p, Reply("search", uid, text, "OnCooldown", <<>>, FALSE))
               ELSE IF kw = <<>>
               THEN Leave(p, Reply("search", uid, text, "EmptyKeyword", <<>>, FALSE))
               ELSE Continue(p, "s_begin",
                             [NoLoc EXCEPT !.op = "search", !.uid = uid, !.kw = kw,
                                           !.late = Reloading # {}])
    /\ UNCHANGED <<now, logs, user_sessions, last_search, delivered, fetches>>

\* do_search: start_or_resume_session(uid, kw); set_search_timestamp(uid).
SearchBegin(p) ==
    /\ Running(p, "s_begin")
    /\ user_sessions' = start_or_resume_session(user_sessions, loc[p].uid, loc[p].kw)
    /\ last_search' = set_search_timestamp(last_search, loc[p].uid, now)
    /\ Continue(p, "scan_read", loc[p])
    /\ UNCHANGED <<now, logs, conn, delivered, fetches>>

\* more_cb up to the cooldown check.
MoreGate(p) ==
    /\ Begin(p)
    /\ \E uid \in Users, kw \in Keywords :
         LET h == has_active_key(conn, uid, now)
             cd == is_on_cooldown(last_search, uid, now)
         IN /\ conn' = h.conn
            /\ IF ~h.ret
               THEN Leave(p, Reply("more", uid, kw, "NoEntitlement", <<>>, FALSE))
               ELSE IF cd.on
               THEN Leave(p, Reply("more", uid, kw, "OnCooldown", <<>>, FALSE))
               ELSE Continue(p, "scan_read",
                             [NoLoc EXCEPT !.op = "more", !.uid = uid, !.kw = kw,
                                           !.late = Reloading # {}])
    /\ UNCHANGED <<now, logs, user_sessions, last_search, delivered, fetches>>

\* scan_next_page_for_session up to the for statement: sess, last_pos,
\* start_index, n = len(logs), scanned_pos, matches.
ScanRead(p) ==
    /\ Running(p, "scan_read")
    /\ LET us1 == start_or_resume_session(user_sessions, loc[p].uid, loc[p].kw)
           last_pos == us1[loc[p].uid][loc[p].kw].last_scanned_pos
           l == [loc[p] EXCEPT !.n = Len(logs), !.idx = StartIndex(last_pos),
                               !.scanned_pos = last_pos, !.snap = logs]
       IN /\ user_sessions' = us1
          /\ Continue(p, IF l.idx < l.n THEN "scan_loop" ELSE "scan_write", l)
    /\ UNCHANGED <<now, logs, last_search, conn, delivered, fetches>>

\* One iteration of the for loop on line, with the loop's variables in l.
ScanLine(line, l) ==
    LET l1 == [l EXCEPT !.scanned_pos = l.idx, !.idx = l.idx + 1]
    IN IF Contains(l.kw, Lower(line))
       THEN LET room == Len(l1.results) < SEARCH_LINE_LIMIT
                l2 == [l1 EXCEPT
                         !.matches = @ + 1,
                         !.results = IF room THEN Append(@, line) ELSE @,
                         !.idxs = IF room THEN Append(@, l.idx) ELSE @]
            IN [l2 EXCEPT !.more_exists = l2.matches > SEARCH_LINE_LIMIT]
       ELSE l1

\* One iteration: logs[idx] reads the list that the global logs names now;
\* an IndexError ends do_search in its except clause and more_cb with the
\* exception.
ScanStep(p) ==
    /\ Running(p, "scan_loop")
    /\ IF loc[p].idx >= Len(logs)
       THEN Leave(p, Reply(loc[p].op, loc[p].uid, loc[p].kw,
                           IF loc[p].op = "search" THEN "Error" ELSE "Raised",
                           <<>>, FALSE))
       ELSE LET l == ScanLine(logs[loc[p].idx + 1], loc[p])
            IN Continue(p, IF l.more_exists \/ l.idx >= l.n
                           THEN "scan_write" ELSE "scan_loop", l)
    /\ UNCHANGED <<now, logs, user_sessions, last_search, conn, delivered, fetches>>

\* The end of scan_next_page_for_session and the rest of the handler: sess
\* is updated (a dropped dict is updated to no effect); more_cb records the
\* timestamp if the page is not empty.
ScanWrite(p) ==
    /\ Running(p, "scan_write")
    /\ LET l == loc[p]
           r == [results |-> l.results, more_exists |-> l.more_exists, idxs |-> l.idxs]
       IN /\ IF l.orphan
             THEN UNCHANGED <<user_sessions, delivered, fetches>>
             ELSE /\ user_sessions' =
                        [user_sessions EXCEPT ![l.uid][l.kw] =
                            [@ EXCEPT !.last_scanned_pos = l.scanned_pos,
                                      !.finished = IF l.scanned_pos >= l.n - 1
                                                   THEN TRUE ELSE @]]
                  /\ delivered' = NoteDelivered(delivered, l.uid, l.kw, r)
                  /\ fetches' = NoteFetch(fetches, l.uid, l.kw, r)
          /\ last_search' = IF l.op = "more" /\ l.results # <<>>
                            THEN set_search_timestamp(last_search, l.uid, now)
                            ELSE last_search
          /\ Leave(p, Reply(l.op, l.uid, l.kw,
                            IF l.results # <<>> THEN "Page"
                            ELSE IF l.op = "search" THEN "NoResults" ELSE "NoMore",
                            l.results, l.more_exists))
    /\ UNCHANGED <<now, logs, conn>>

\* refresh_logs_cmd / refresh_logs_cb up to logs = load_logs().
ReloadSwap(p) ==
    /\ Begin(p)
    /\ \E uid \in Users :
         IF uid # ADMIN_ID
         THEN /\ Leave(p, Reply("refresh", uid, <<>>, "NotAuthorized", <<>>, FALSE))
              /\ UNCHANGED logs
         ELSE /\ logs' \in RaceCorpora
              /\ Continue(p, "rl_clear",
                          [NoLoc EXCEPT !.op = "refresh", !.uid = uid,
                                        !.had = SessionsOf(user_sessions)])
    /\ UNCHANGED <<now, user_sessions, last_search, conn, delivered, fetches>>

\* user_sessions.clear() and the answer: a thread inside a scan keeps its
\* sess dict, which is no longer in user_sessions.
ReloadClear(p) ==
    /\ Running(p, "rl_clear")
    /\ user_sessions' = <<>>
    /\ delivered' = NoHistory
    /\ fetches' = NoHistory
    /\ pc' = [pc EXCEPT ![p] = "idle"]
    /\ loc' = [q \in Procs |->
                 IF q = p THEN NoLoc
                 ELSE [loc[q] EXCEPT !.late = FALSE,
                                     !.orphan = pc[q] \in {"scan_loop", "scan_write"}]]
    /\ reply' = Reply("refresh", loc[p].uid, <<>>, "Reloaded", <<>>, FALSE)
    /\ UNCHANGED <<now, logs, last_search, conn>>

SearchStep(p) ==
    \/ SearchGate(p)
    \/ SearchBegin(p)
    \/ MoreGate(p)
    \/ ScanRead(p)
    \/ ScanStep(p)
    \/ ScanWrite(p)
    \/ ReloadSwap(p)
    \/ ReloadClear(p)

InitSearch == Init /\ logs \in RaceCorpora

NextSearch == \E p \in Procs : SearchStep(p)

SpecSearch == InitSearch /\ [][NextSearch]_vars

\* ------------------------------------------------------------------ claims
\* Corpus positions (0-based) whose line contains kw, and the same in order.
MatchSet(lg, kw) == {i \in 0..(Len(lg) - 1) : Contains(kw, Lower(lg[i + 1]))}

RECURSIVE SortedSeq(_)
SortedSeq(S) ==
    IF S = {} THEN <<>>
    ELSE LET m == CHOOSE x \in S : \A y \in S : x <= y
         IN <<m>> \o SortedSeq(S \ {m})

Last(s) == s[Len(s)]

SessionOf(sk) == user_sessions[sk[1]][sk[2]]

\* C1: once a session is finished, the pages delivered to it, concatenated,
\* are exactly the matching corpus positions in corpus order (each matching
\* line delivered once, none omitted).
C1_AllMatchesDelivered ==
    \A sk \in SessionKeys :
        (HasSession(user_sessions, sk[1], sk[2]) /\ SessionOf(sk).finished)
            => delivered[sk] = SortedSeq(MatchSet(logs, sk[2]))

\* C2: when a page fetch returned more_exists = TRUE, the next page fetch of
\* the same session on the same corpus returns a non-empty page that starts
\* with the first matching line after the last line of the previous page.
C2_NextPageFollowsPrevious ==
    \A sk \in SessionKeys :
        (Len(fetches[sk]) = 2 /\ fetches[sk][1].more)
            => /\ fetches[sk][2].idxs # <<>>
               /\ LET after == {i \in MatchSet(logs, sk[2]) :
                                    i > Last(fetches[sk][1].idxs)}
                  IN \A i \in after : fetches[sk][2].idxs[1] <= i

\* C3: over all Search and More calls of one (user, keyword) session between
\* two reloads, the corpus positions delivered are strictly increasing: no
\* position is delivered twice and delivery follows corpus order.
C3_DeliveredStrictlyIncreasing ==
    \A sk \in SessionKeys :
        \A i, j \in DOMAIN delivered[sk] :
            i < j => delivered[sk][i] < delivered[sk][j]

\* C3 witness: a session that received two non-empty pages.
C3_Witness ==
    \E sk \in SessionKeys :
        /\ Len(fetches[sk]) = 2
        /\ fetches[sk][1].idxs # <<>>
        /\ fetches[sk][2].idxs # <<>>
        /\ Len(delivered[sk]) >= 3

\* Steps and states of the store that the claims speak of.
Claimed(keys, key) == key \in DOMAIN keys /\ keys[key].redeemed_by # NULL

InHandler(p, op) == pc[p] # "idle" /\ loc[p].op = op

Returns(p) == pc[p] # "idle" /\ pc'[p] = "idle"

TablesUnchanged ==
    /\ conn'.keys = conn.keys
    /\ conn'.users = conn.users
    /\ conn'.dkeys = conn.dkeys
    /\ conn'.dusers = conn.dusers

OthersUnchanged(uid) ==
    \A v \in Users \ {uid} :
        /\ Expiry(conn'.users, v) = Expiry(conn.users, v)
        /\ Expiry(conn'.dusers, v) = Expiry(conn.dusers, v)

\* C4: of two redemptions of the same unredeemed key that run at the same
\* time, exactly one answers success and exactly one answers invalid-or-used
\* (checked when the second of the two returns, the first being the last
\* handler that returned).
C4_ExactlyOneRedeemWins ==
    [][\A p \in Procs :
          (/\ Returns(p)
           /\ loc[p].op = "redeem" /\ loc[p].race
           /\ reply.op = "redeem" /\ reply.race
           /\ reply.key = loc[p].key /\ reply.proc # p)
              => {reply.out, reply'.out} = {"ok", "invalid"}]_vars

\* C5: in every committed state a key is claimed exactly if the entitlement
\* upsert of its redemption has been committed: the two mutations of a
\* redemption are durable together or not at all.
C5_RedeemAtomic ==
    \A k \in Codes : Claimed(conn.dkeys, k) <=> k \in conn.dgrant

\* C6: a redemption of a code that is absent or already redeemed writes
\* nothing to the key and user tables and answers invalid-or-used.
C6_FailedRedeemChangesNothing ==
    [][\A p \in Procs :
          (InHandler(p, "redeem") /\ ~loc[p].fresh)
              => /\ TablesUnchanged
                 /\ Returns(p)
                 /\ reply'.out = "invalid"]_vars

\* C6 witness: a user was refused a key that another user had redeemed.
C6_Witness ==
    /\ reply.op = "redeem" /\ reply.out = "invalid"
    /\ Claimed(conn.dkeys, reply.key)
    /\ conn.dkeys[reply.key].redeemed_by # reply.uid

\* C7: a redemption that succeeds leaves the key redeemed by the user and the
\* user's expiry equal to the key's expiry, whatever the user's expiry was
\* before, so that get_user_expiry answers the key's expiry; no step of it
\* changes another user's entitlement.
C7_RedeemOverwritesExpiry ==
    [][\A p \in Procs :
          InHandler(p, "redeem")
              => /\ OthersUnchanged(loc[p].uid)
                 /\ pc[p] = "r_commit"
                      => /\ Returns(p)
                         /\ reply'.out = "ok"
                         /\ Claimed(conn'.dkeys, loc[p].key)
                         /\ conn'.dkeys[loc[p].key].redeemed_by = loc[p].uid
                         /\ Expiry(conn'.dusers, loc[p].uid)
                                = <<conn'.dkeys[loc[p].key].expires>>
                         /\ get_user_expiry(conn', loc[p].uid).ret
                                = <<conn'.dkeys[loc[p].key].expires>>]_vars

\* C7 witness: a redemption succeeded for a user whose expiry before it was
\* later than the expiry it left.
C7_Witness ==
    /\ reply.op = "redeem" /\ reply.out = "ok"
    /\ reply.old # None
    /\ reply.uid \in DOMAIN conn.dusers
    /\ reply.old[1] > conn.dusers[reply.uid]
    /\ Claimed(conn.dkeys, reply.key)
    /\ conn.dusers[reply.uid] = conn.dkeys[reply.key].expires

\* C8: a committed key with a non-null redeemed_by is never changed or
\* removed by any later step.
C8_RedeemedKeyImmutable ==
    [][\A k \in Codes :
          Claimed(conn.dkeys, k)
              => k \in DOMAIN conn'.dkeys /\ conn'.dkeys[k] = conn.dkeys[k]]_vars

\* C9: has_active_key answers true exactly if the user has a record with
\* now <= expires; with an expired record it answers false and the record is
\* gone; with no record or a live one it changes no table; it never changes
\* another user's record.
C9_HasActiveKeyContract ==
    [][\A p \in Procs :
          InHandler(p, "has_active")
              => LET old == loc[p].old
                     live == old # None /\ now <= old[1]
                 IN /\ OthersUnchanged(loc[p].uid)
                    /\ (old = None \/ live) => TablesUnchanged
                    /\ Returns(p)
                         => /\ reply'.out \in {"true", "false"}
                            /\ reply'.out = "true" <=> live
                            /\ (old # None /\ ~live)
                                 => /\ loc[p].uid \notin DOMAIN conn'.users
                                    /\ loc[p].uid \notin DOMAIN conn'.dusers]_vars

\* C9 witness: an access check answered false for a user whose record had
\* expired, and the record is gone.
C9_Witness ==
    /\ reply.op = "has_active" /\ reply.out = "false"
    /\ reply.old # None
    /\ reply.uid \notin DOMAIN conn.dusers

\* C10: when create_key_cmd returns, every code it reports is a committed
\* unredeemed key, and it reports as many codes as it added keys.
C10_ReportedCodesAreStored ==
    [][\A p \in Procs :
          (pc[p] = "c_commit" /\ Returns(p))
              => /\ \A i \in DOMAIN loc[p].keys :
                        Unredeemed(conn'.dkeys, loc[p].keys[i])
                 /\ Len(loc[p].keys)
                        = Cardinality((DOMAIN conn'.dkeys) \ loc[p].had)]_vars

\* Steps and states of the search engine that the claims speak of.
NoCooldown == [on |-> FALSE, rem |-> 0]

Accepted == {"Page", "NoResults", "NoMore"}

Refused == {"NoEntitlement", "OnCooldown"}

\* The step is a do_search / more_cb that answered (a repeated identical
\* answer that changed nothing is not told apart from no step).
Answers(op) == reply'.op = op /\ reply' # reply

LastFetch(f, sk) == f[sk][Len(f[sk])]

\* What CheckAndRemaining must report for user u, marked or not, at time t.
CooldownAgrees(ls, u, t) ==
    LET cd == is_on_cooldown(ls, u, t)
    IN IF u \notin DOMAIN ls THEN cd = NoCooldown
       ELSE IF t < ls[u] + SEARCH_COOLDOWN_MINUTES
            THEN cd.on /\ cd.rem = ls[u] + SEARCH_COOLDOWN_MINUTES - t
            ELSE cd = NoCooldown

\* C11: a mark records the current time; for a user other than the admin
\* is_on_cooldown reports on-cooldown with remaining = mark + window - now
\* while now < mark + window and (false, 0) from then on; a user never marked
\* is not on cooldown; and while the user stays on cooldown the remaining
\* time strictly decreases as the clock advances.
C11_CooldownWindow ==
    [][\A u \in Users \ {ADMIN_ID} :
          /\ CooldownAgrees(last_search, u, now)
          /\ CooldownAgrees(last_search', u, now')
          /\ (u \in DOMAIN last_search' /\ Expiry(last_search', u) # Expiry(last_search, u))
                => last_search'[u] = now
          /\ (/\ last_search' = last_search /\ now' > now
              /\ is_on_cooldown(last_search, u, now).on
              /\ is_on_cooldown(last_search', u, now').on)
                => is_on_cooldown(last_search', u, now').rem
                       < is_on_cooldown(last_search, u, now).rem]_vars

\* C11 witness: a marked user, the clock having advanced, was refused for
\* cooldown with less than the whole window remaining.
C11_Witness ==
    /\ reply.uid # ADMIN_ID /\ reply.outcome = "OnCooldown"
    /\ reply.uid \in DOMAIN last_search
    /\ last_search[reply.uid] < now
    /\ is_on_cooldown(last_search, reply.uid, now).on
    /\ is_on_cooldown(last_search, reply.uid, now).rem < SEARCH_COOLDOWN_MINUTES

\* C12: is_on_cooldown reports (false, 0) for the admin in every state, and
\* no search or more of the admin is answered with OnCooldown.
C12_AdminNeverOnCooldown ==
    /\ is_on_cooldown(last_search, ADMIN_ID, now) = NoCooldown
    /\ reply.uid = ADMIN_ID => reply.outcome # "OnCooldown"

\* C12 witness: the admin's second page fetch within one instant, the first
\* having recorded a timestamp, was accepted.
C12_Witness ==
    \E kw \in Keywords :
        /\ now = 0
        /\ reply.uid = ADMIN_ID /\ reply.outcome \in Accepted
        /\ ADMIN_ID \in DOMAIN last_search
        /\ Len(fetches[<<ADMIN_ID, kw>>]) = 2
        /\ fetches[<<ADMIN_ID, kw>>][1].idxs # <<>>

\* C13: a step whose answer is NoEntitlement or OnCooldown leaves every
\* last-search timestamp and every session as they were.
C13_RefusalChangesNothing ==
    [][reply'.outcome \in Refused
          => last_search' = last_search /\ user_sessions' = user_sessions]_vars

\* C13 witness: a user with a timestamp in the past and a session that has
\* scanned was refused for cooldown.
C13_Witness ==
    /\ reply.outcome = "OnCooldown"
    /\ reply.uid \in DOMAIN last_search
    /\ last_search[reply.uid] < now
    /\ \E kw \in Keywords :
          /\ HasSession(user_sessions, reply.uid, kw)
          /\ user_sessions[reply.uid][kw].last_scanned_pos >= 0

\* C14: only a search brings a session into being, and a more_cb for a
\* (user, keyword) without a session is answered with UnknownSession (or
\* refused at the gates).
C14_MoreNeedsSession ==
    [][/\ \A sk \in SessionKeys :
             (~HasSession(user_sessions, sk[1], sk[2])
                 /\ HasSession(user_sessions', sk[1], sk[2]))
                => reply'.op = "search"
       /\ (Answers("more") /\ ~HasSession(user_sessions, reply'.uid, reply'.kw))
             => reply'.outcome \in Refused \cup {"UnknownSession"}]_vars

\* C16: a finished session answers a further scan with an empty page and
\* more_exists = false, and as long as it exists (no reload) it and what
\* was delivered from it stay as they are.
C16_FinishedStaysFinished ==
    [][\A sk \in SessionKeys :
          (HasSession(user_sessions, sk[1], sk[2]) /\ SessionOf(sk).finished)
             => LET r == scan_next_page_for_session(user_sessions, logs, sk[1], sk[2])
                IN /\ r.results = <<>> /\ ~r.more_exists
                   /\ r.us = user_sessions
                   /\ HasSession(user_sessions', sk[1], sk[2])
                        => /\ user_sessions'[sk[1]][sk[2]] = SessionOf(sk)
                           /\ delivered'[sk] = delivered[sk]]_vars

\* C16 witness: a session that had delivered its last page and was finished
\* was fetched again, and the page was empty.
C16_Witness ==
    \E sk \in SessionKeys :
        /\ HasSession(user_sessions, sk[1], sk[2]) /\ SessionOf(sk).finished
        /\ Len(fetches[sk]) = 2
        /\ fetches[sk][1].idxs # <<>> /\ ~fetches[sk][1].more
        /\ fetches[sk][2].idxs = <<>>
        /\ reply.uid = sk[1] /\ reply.outcome \in {"NoResults", "NoMore"}

C18_AcceptedFetchMarks ==
    [][(/\ reply'.op \in {"search", "more"} /\ reply' # reply
        /\ reply'.outcome \in Accepted)
          => /\ reply'.uid \in DOMAIN last_search'
             /\ last_search'[reply'.uid] = now]_vars

\* Thread p runs the statements at label in this step.
Runs(p, label) == pc[p] = label /\ (pc'[p] # label \/ loc'[p].idx # loc[p].idx)

\* C15: the reload's second statement leaves no session, and no page fetch
\* that began after a reload's new corpus was in place reads the cursor of a
\* session that existed before that reload.
C15_ReloadSeenWithClearedSessions ==
    [][\A p \in Procs :
          /\ (pc[p] = "rl_clear" /\ pc'[p] = "idle") => user_sessions' = <<>>
          /\ Runs(p, "scan_read")
               => ~ /\ loc[p].late
                    /\ \E q \in Reloading : <<loc[p].uid, loc[p].kw>> \in loc[q].had]_vars

\* C19: no corpus position is delivered twice to a session, also by two
\* fetches of the session that run at the same time, and a session's
\* last_scanned_pos never decreases.
C19_FetchesOfASessionSerialized ==
    [][\A sk \in SessionKeys :
          /\ \A i, j \in DOMAIN delivered'[sk] :
                i # j => delivered'[sk][i] # delivered'[sk][j]
          /\ (HasSession(user_sessions, sk[1], sk[2])
                 /\ HasSession(user_sessions', sk[1], sk[2]))
               => user_sessions'[sk[1]][sk[2]].last_scanned_pos
                      >= SessionOf(sk).last_scanned_pos]_vars

\* C20: every iteration of a scan reads a line of the corpus that was in
\* place when the scan read its cursor and length, at a position inside the
\* corpus, unless the fetch is answered with UnknownSession.
C20_ScanReadsOneSnapshot ==
    [][\A p \in Procs :
          Runs(p, "scan_loop")
             => \/ logs = loc[p].snap /\ loc[p].idx < Len(logs)
                \/ pc'[p] = "idle" /\ reply'.outcome = "UnknownSession"]_vars

\* The cursor of session sk in us: -1 when there is no session yet.
PosOf(us, sk) ==
    IF HasSession(us, sk[1], sk[2]) THEN us[sk[1]][sk[2]].last_scanned_pos ELSE -1

\* Session sk is created or changed by this step.
Touched(sk) ==
    /\ HasSession(user_sessions', sk[1], sk[2])
    /\ HasSession(user_sessions, sk[1], sk[2])
          => user_sessions'[sk[1]][sk[2]] # SessionOf(sk)

PageOk(kw, page, more) ==
    /\ Len(page) <= SEARCH_LINE_LIMIT
    /\ \A i \in DOMAIN page : Contains(kw, Lower(page[i]))
    /\ more => Len(page) = SEARCH_LINE_LIMIT

\* C21: a scan that reports more_exists leaves last_scanned_pos on the
\* (SEARCH_LINE_LIMIT + 1)-th match after its start; a scan that does not
\* leaves it on the last corpus position, or where it was when there was no
\* position to examine; and every step that creates or changes a session
\* leaves it as that scan leaves it.
C21_ScanDistance ==
    [][\A sk \in SessionKeys :
          LET r == scan_next_page_for_session(user_sessions, logs, sk[1], sk[2])
              before == PosOf(user_sessions, sk)
              after == PosOf(r.us, sk)
              ahead == SortedSeq({i \in MatchSet(logs, sk[2]) : i > before})
          IN /\ r.more_exists
                  => Len(ahead) > SEARCH_LINE_LIMIT /\ after = ahead[SEARCH_LINE_LIMIT + 1]
             /\ ~r.more_exists
                  => after = IF before + 1 < Len(logs) THEN Len(logs) - 1 ELSE before
             /\ (Touched(sk) /\ logs' = logs)
                  => user_sessions'[sk[1]][sk[2]] = r.us[sk[1]][sk[2]]]_vars

\* C21 witness: a fetch reported more matches and left the cursor beyond
\* the last line of its page and before the end of the corpus.
C21_Witness ==
    \E sk \in SessionKeys :
        /\ HasSession(user_sessions, sk[1], sk[2])
        /\ fetches[sk] # <<>> /\ LastFetch(fetches, sk).more
        /\ SessionOf(sk).last_scanned_pos > Last(LastFetch(fetches, sk).idxs)
        /\ SessionOf(sk).last_scanned_pos < Len(logs) - 1

\* C22: a page has at most SEARCH_LINE_LIMIT lines, each of them contains
\* the lower-cased keyword in its lower-cased text, and a page that comes
\* with more_exists has exactly SEARCH_LINE_LIMIT lines: for every answer of
\* an accepted fetch and for the scan of every session in every state.
C22_PageWithinLimit ==
    /\ (reply.op \in {"search", "more"} /\ reply.outcome \in Accepted)
          => PageOk(reply.kw, reply.results, reply.more)
    /\ \A sk \in SessionKeys :
          LET r == scan_next_page_for_session(user_sessions, logs, sk[1], sk[2])
          IN PageOk(sk[2], r.results, r.more_exists)

\* C22 witness: a full page was answered together with more_exists.
C22_Witness ==
    /\ reply.outcome = "Page" /\ reply.more
    /\ Len(reply.results) = SEARCH_LINE_LIMIT

\* C23: a session's last_scanned_pos lies in -1 .. len(logs) - 1 and its
\* finished flag is set exactly if last_scanned_pos = len(logs) - 1; in a
\* step that keeps the session (no reload) last_scanned_pos does not
\* decrease and finished does not go back to false.
C23_SessionCursorInvariant ==
    [][\A sk \in SessionKeys :
          /\ HasSession(user_sessions', sk[1], sk[2])
               => LET s == user_sessions'[sk[1]][sk[2]]
                  IN /\ s.last_scanned_pos \in -1 .. (Len(logs') - 1)
                     /\ s.finished <=> s.last_scanned_pos = Len(logs') - 1
          /\ (HasSession(user_sessions, sk[1], sk[2])
                 /\ HasSession(user_sessions', sk[1], sk[2]))
               => /\ PosOf(user_sessions', sk) >= PosOf(user_sessions, sk)
                  /\ SessionOf(sk).finished => user_sessions'[sk[1]][sk[2]].finished]_vars

\* C23 witness: a session whose first fetch stopped early reached the last
\* corpus position with its second fetch and is finished.
C23_Witness ==
    \E sk \in SessionKeys :
        /\ HasSession(user_sessions, sk[1], sk[2])
        /\ SessionOf(sk).finished
        /\ SessionOf(sk).last_scanned_pos = Len(logs) - 1
        /\ Len(fetches[sk]) = 2 /\ fetches[sk][1].more

\* This step is an accepted fetch of session sk by one of the two handlers.
FetchOn(sk) ==
    /\ now' = now
    /\ reply'.op \in {"search", "more"} /\ reply'.outcome \in Accepted
    /\ reply'.uid = sk[1] /\ reply'.kw = sk[2]

Unfinished(us, sk) == HasSession(us, sk[1], sk[2]) => ~us[sk[1]][sk[2]].finished

Finished(sk) == HasSession(user_sessions, sk[1], sk[2]) /\ SessionOf(sk).finished

\* C24 as stated: over a corpus that is never reloaded every accepted fetch
\* on an unfinished session (a new one included) advances last_scanned_pos
\* by at least 1.
C24_EveryFetchAdvances ==
    [][\A sk \in SessionKeys :
          (FetchOn(sk) /\ Unfinished(user_sessions, sk))
              => PosOf(user_sessions', sk) >= PosOf(user_sessions, sk) + 1]_vars

\* C24 amended: over a corpus that is never reloaded every accepted fetch on
\* an unfinished session advances last_scanned_pos by at least 1 when the
\* corpus has a line, and over the empty corpus leaves it at -1 and finishes
\* the session; the session is finished exactly when last_scanned_pos is
\* the last position, and the fetch that does not report more_exists
\* finishes it; so a session that keeps being fetched becomes finished and
\* stays finished.
C24_FetchesReachTheEnd ==
    /\ [][\A sk \in SessionKeys :
             (FetchOn(sk) /\ Unfinished(user_sessions, sk))
                 => LET s == user_sessions'[sk[1]][sk[2]]
                    IN /\ HasSession(user_sessions', sk[1], sk[2])
                       /\ Len(logs) > 0
                            => s.last_scanned_pos >= PosOf(user_sessions, sk) + 1
                       /\ Len(logs) = 0 => s.last_scanned_pos = -1 /\ s.finished
                       /\ s.last_scanned_pos <= Len(logs) - 1
                       /\ s.finished <=> s.last_scanned_pos = Len(logs) - 1
                       /\ ~reply'.more => s.finished]_vars
    /\ \A kw \in Keywords : <>[]Finished(<<ADMIN_ID, kw>>)
    /\ \A sk \in SessionKeys :
          ([]<><<FetchOn(sk) /\ Unfinished(user_sessions, sk)>>_Cursors) => <>[]Finished(sk)

\* C24 witness: a session over a corpus of MaxLines lines became finished
\* by a second fetch, the first having stopped on an excess match.
C24_Witness ==
    \E sk \in SessionKeys :
        /\ Len(logs) = MaxLines
        /\ Finished(sk)
        /\ Len(fetches[sk]) = 2 /\ fetches[sk][1].more /\ ~fetches[sk][2].more
        /\ reply.op = "more" /\ reply.outcome \in Accepted

\* C25: a redeem that failed after its upsert leaves nothing behind: an
\* operation raises (answers "error" or "usage") only if the store fails
\* during that very operation, never because of a transaction an earlier
\* operation left failed, and whenever no handler runs nothing is pending on
\* the connection.
C25_FailedRedeemLeavesNoTrace ==
    [][/\ (Returns(Main) /\ reply'.out \in {"error", "usage"}) => ~conn.aborted
       /\ pc'[Main] = "idle"
            => /\ ~conn'.aborted
               /\ conn'.users = conn'.dusers
               /\ conn'.keys = conn'.dkeys]_vars

\* C26: the DELETE of has_active_key never removes an entitlement that is
\* not expired: when a thread executes it, the user's record, if there is
\* one, is expired.
C26_CleanupRemovesOnlyExpired ==
    [][\A p \in Procs :
          (pc[p] = "h_delete" /\ pc'[p] # "h_delete"
              /\ loc[p].uid \in DOMAIN conn.users
              /\ loc[p].uid \notin DOMAIN conn'.users)
            => conn.users[loc[p].uid] < now]_vars

====
